---- MODULE Spec2Model ----
(***************************************************************************)
(* nutri-rag: a retrieval-augmented chatbot over nutrition PDFs.           *)
(*                                                                         *)
(* Three programs are modelled, one value of `program` each:               *)
(*   "app"    src/app.py            the Streamlit chat UI                  *)
(*   "cli"    src/src/rag_query.py  the command-line question loop         *)
(*   "index"  src/src/index_docs.py the ingestion run                      *)
(* and "chunk", which applies chunk_text of index_docs.py on its own.      *)
(*                                                                         *)
(* Similarities are integers in hundredths (0.75 is 75), temperatures in   *)
(* tenths (0.2 is 2).  A file name is a                                    *)
(* sequence of one-character strings, so that lower() and the `in`         *)
(* substring test are computed.  A text is represented by the sequence of  *)
(* segments the text splitter cuts it into.                                *)
(***************************************************************************)
EXTENDS Integers, Sequences, FiniteSets, TLC

VARIABLES
    program,            \* which program this behaviour is a run of
    pc,                 \* position of the program
    supabase,           \* module-level client: TRUE when initialised
    client_gemini,      \* module-level client: TRUE when initialised
    model_embedding,    \* module-level model: TRUE when loaded
    calls,              \* external calls issued for the current query / run, in order
    embedded,           \* outcome of the query's encode call: "none" | "ok" | "fail"
    rpc,                \* outcome of the query's match_documents call: "none" | "ok" | "error"
    response_data,      \* rows the similarity-search service returned
    relevant_chunks,    \* what get_relevant_chunks returned
    prompt,             \* what was sent to generate_content: [instruction, temperature, context]
    llm,                \* outcome of generate_content: "none" | "ok" | "fail"
    answer,             \* what generate_rag_answer returned: [text, mode]
    shown,              \* what the entry point displayed for the current query
    messages,           \* st.session_state.messages of the chat UI
    docs,               \* the PDF files of docs/, in listing order
    run,                \* number of the ingestion run (1 = first)
    di,                 \* index of the next document of the run
    total_chunks_data,  \* rows collected by the run
    i,                  \* offset of the next batch
    success_count,      \* rows of the batches that were inserted
    posted,             \* the batches posted by the run: [offset, size, outcome]
    report,             \* the final log line of insert_data_to_supabase_api
    store               \* rows held by the documents table

qvars == <<supabase, client_gemini, model_embedding, embedded, rpc,
           response_data, relevant_chunks, prompt, llm, answer, shown, messages>>
ivars == <<docs, run, di, total_chunks_data, i, success_count, posted, report, store>>
vars == <<program, pc, calls, qvars, ivars>>

---------------------------------------------------------------------------
(* Program constants *)

K_CHUNKS == 5
MATCH_THRESHOLD == 50
POST_FILTER == 75
BATCH_SIZE == 500

(* Bounds of the model *)

MaxQueries == 2
MaxDocs == 2
MaxRuns == 2
MaxChunks == 3
MaxParts == 2

---------------------------------------------------------------------------
(* The similarity-search service (match_documents), as the spec describes  *)
(* it: at most match_count rows, each meeting match_threshold, ordered by  *)
(* descending similarity.                                                  *)

Similarities == {40, 60, 75, 76, 90}

Row(s) == [source |-> "guia.pdf", content |-> "c", similarity |-> s]

Descending(rows) ==
    \A a \in 1..Len(rows), b \in 1..Len(rows) :
        a < b => rows[a].similarity >= rows[b].similarity

match_documents(match_threshold, match_count) ==
    { [k \in DOMAIN g |-> Row(g[k])] :
        g \in { h \in UNION { [1..m -> Similarities] : m \in 0..match_count } :
                  /\ \A k \in DOMAIN h : h[k] >= match_threshold
                  /\ \A a \in DOMAIN h, b \in DOMAIN h : a < b => h[a] >= h[b] } }

---------------------------------------------------------------------------
(* Query time: get_relevant_chunks and generate_rag_answer                 *)

NoAnswer == [text |-> "none", mode |-> "none"]
NoPrompt == [instruction |-> "none", temperature |-> 0, context |-> 0]
Nothing == [icon |-> "none", label |-> "none", text |-> "none"]

(* A returned chunk is the formatted string                                *)
(* "[Fonte: <source>, Score: <similarity>] <content>": it keeps the three  *)
(* fields of the row it was built from.                                    *)
content_with_source(match) ==
    [source |-> match.source, similarity |-> match.similarity, content |-> match.content]

RECURSIVE Formatted(_)
Formatted(rows) ==
    IF rows = <<>> THEN <<>>
    ELSE <<content_with_source(Head(rows))>> \o Formatted(Tail(rows))

PassesFilter(match) == match.similarity > POST_FILTER

(* app.py: the loop over response.data keeps the rows above 0.75.          *)
app_relevant_chunks(data) == Formatted(SelectSeq(data, PassesFilter))

(* rag_query.py: the loop over response.data keeps every row.              *)
cli_relevant_chunks(data) == Formatted(data)

(* app.py generate_rag_answer: the (text, mode) pair it returns, given     *)
(* whether the generate_content call succeeds.                             *)
app_generate_rag_answer(client, chunks, generated) ==
    IF ~client THEN [text |-> "Erro: Cliente Gemini nao inicializado.", mode |-> "ERROR"]
    ELSE LET source == IF chunks # <<>> THEN "RAG" ELSE "FALLBACK"
         IN  IF generated
             THEN [text |-> "response.text", mode |-> source]
             ELSE [text |-> "Erro ao gerar resposta com o LLM.", mode |-> "ERROR"]

(* rag_query.py generate_rag_answer returns a string only: no mode.        *)
cli_generate_rag_answer(client, chunks, generated) ==
    IF ~client THEN [text |-> "Erro: Cliente Gemini nao inicializado.", mode |-> "NONE"]
    ELSE IF generated
         THEN [text |-> "response.text", mode |-> "NONE"]
         ELSE [text |-> "Erro ao gerar resposta com o LLM.", mode |-> "NONE"]

(* The system instruction and temperature each answerer sends.             *)
app_prompt(chunks) ==
    IF chunks # <<>>
    THEN [instruction |-> "grounded", temperature |-> 2, context |-> Len(chunks)]
    ELSE [instruction |-> "general", temperature |-> 4, context |-> 0]

cli_prompt(chunks) ==
    [instruction |-> "grounded", temperature |-> 2, context |-> Len(chunks)]

(* app.py lines 147-153: the header shown above the answer.                *)
source_icon(source) == IF source = "RAG" THEN "books" ELSE "bulb"
source_label(source) ==
    IF source = "RAG" THEN "RAG (Documentos)" ELSE "FALLBACK (Conhecimento Geral)"

full_response_content(ans) ==
    [icon |-> source_icon(ans.mode), label |-> source_label(ans.mode), text |-> ans.text]

Greeting == [role |-> "assistant", content |-> Nothing]

IdleQuery ==
    /\ embedded = "none" /\ rpc = "none" /\ response_data = <<>>
    /\ relevant_chunks = <<>> /\ prompt = NoPrompt /\ llm = "none"
    /\ answer = NoAnswer /\ shown = Nothing

IdleIndex ==
    /\ docs = <<>> /\ run = 0 /\ di = 0 /\ total_chunks_data = <<>> /\ i = 0
    /\ success_count = 0 /\ posted = <<>>
    /\ report = [inserted |-> 0, total |-> 0, complete |-> FALSE]
    /\ store = <<>>

InitQuery ==
    /\ program \in {"app", "cli"}
    /\ pc = "start"
    /\ calls = <<>>
    /\ supabase \in BOOLEAN
    /\ client_gemini \in BOOLEAN
    /\ model_embedding \in BOOLEAN
       \* initialize_resources of app.py returns the three handles or three None
    /\ program = "app" => (supabase = client_gemini /\ client_gemini = model_embedding)
    /\ messages = <<>>
    /\ IdleQuery
    /\ IdleIndex

(* Module level of app.py (lines 121-128) and the guard of main() of       *)
(* rag_query.py (lines 140-142).                                           *)
Startup ==
    /\ pc = "start" /\ program \in {"app", "cli"}
    /\ IF supabase /\ client_gemini /\ model_embedding
       THEN /\ pc' = "ready"
            /\ messages' = IF program = "app" THEN <<Greeting>> ELSE messages
       ELSE /\ pc' = "stopped"
            /\ UNCHANGED messages
    /\ UNCHANGED <<program, calls, supabase, client_gemini, model_embedding, embedded, rpc,
                   response_data, relevant_chunks, prompt, llm, answer, shown, ivars>>

ResetQuery ==
    /\ calls' = <<>> /\ embedded' = "none" /\ rpc' = "none" /\ response_data' = <<>>
    /\ relevant_chunks' = <<>> /\ prompt' = NoPrompt /\ llm' = "none"
    /\ answer' = NoAnswer /\ shown' = Nothing

(* app.py lines 136-143: a prompt arrives and get_relevant_chunks starts.  *)
ChatInput ==
    /\ program = "app" /\ pc = "ready"
    /\ Len(messages) < 1 + 2 * MaxQueries
    /\ messages' = Append(messages, [role |-> "user", content |-> Nothing])
    /\ ResetQuery
    /\ pc' = "embed"
    /\ UNCHANGED <<program, supabase, client_gemini, model_embedding, ivars>>

(* rag_query.py lines 148-161: one line of input.                          *)
Input(user_query) ==
    /\ program = "cli" /\ pc = "ready"
    /\ IF user_query = "sair"
       THEN /\ pc' = "exited"
            /\ UNCHANGED <<calls, embedded, rpc, response_data, relevant_chunks, prompt, llm,
                           answer, shown>>
       ELSE IF user_query = ""
       THEN /\ pc' = "ready"
            /\ UNCHANGED <<calls, embedded, rpc, response_data, relevant_chunks, prompt, llm,
                           answer, shown>>
       ELSE /\ pc' = "embed"
            /\ ResetQuery
    /\ UNCHANGED <<program, supabase, client_gemini, model_embedding, messages, ivars>>

Embed_retrying(ok) ==
    /\ pc = "embed"
    /\ calls' = Append(calls, [op |-> "embed", ok |-> ok])
    /\ embedded' = IF ok THEN "ok" ELSE "fail"
    /\ pc' = IF ok THEN "rpc" ELSE "embed"
    /\ UNCHANGED <<program, supabase, client_gemini, model_embedding, rpc, response_data,
                   relevant_chunks, prompt, llm, answer, shown, messages, ivars>>

(* model_embedding.encode(query_text).  In app.py (line 55) the call is    *)
(* inside the try block: a failure is logged and [] is returned.  In       *)
(* rag_query.py (line 65) it is before the try: the exception leaves       *)
(* get_relevant_chunks and main().                                         *)
Embed(ok) ==
    /\ pc = "embed"
    /\ calls' = Append(calls, [op |-> "embed", ok |-> ok])
    /\ embedded' = IF ok THEN "ok" ELSE "fail"
    /\ pc' = IF ok THEN "rpc" ELSE IF program = "app" THEN "generate" ELSE "crashed"
    /\ UNCHANGED <<program, supabase, client_gemini, model_embedding, rpc, response_data,
                   relevant_chunks, prompt, llm, answer, shown, messages, ivars>>

(* supabase.rpc('match_documents', ...).execute() and the rest of          *)
(* get_relevant_chunks; in rag_query.py also lines 163-165 of main().      *)
Rpc(ok, data) ==
    /\ pc = "rpc"
    /\ calls' = Append(calls, [op |-> "rpc", ok |-> ok])
    /\ rpc' = IF ok THEN "ok" ELSE "error"
    /\ response_data' = IF ok THEN data ELSE <<>>
    /\ LET chunks == IF ~ok THEN <<>>
                     ELSE IF program = "app" THEN app_relevant_chunks(data)
                     ELSE cli_relevant_chunks(data)
       IN  /\ relevant_chunks' = chunks
           /\ IF program = "cli" /\ chunks = <<>>
              THEN /\ shown' = [icon |-> "none", label |-> "none",
                                text |-> "Desculpe, nao foi possivel realizar a busca"]
                   /\ pc' = "ready"
              ELSE /\ pc' = "generate"
                   /\ UNCHANGED shown
    /\ UNCHANGED <<program, supabase, client_gemini, model_embedding, embedded, prompt, llm, answer,
                   messages, ivars>>

(* generate_rag_answer and what the entry point does with its result:      *)
(* app.py lines 144-160, rag_query.py lines 168-176.                       *)
Generate(ok) ==
    /\ pc = "generate"
    /\ calls' = IF client_gemini THEN Append(calls, [op |-> "llm", ok |-> ok]) ELSE calls
    /\ prompt' = IF ~client_gemini THEN NoPrompt
                 ELSE IF program = "app" THEN app_prompt(relevant_chunks)
                 ELSE cli_prompt(relevant_chunks)
    /\ llm' = IF ~client_gemini THEN "none" ELSE IF ok THEN "ok" ELSE "fail"
    /\ IF program = "app"
       THEN LET ans == app_generate_rag_answer(client_gemini, relevant_chunks, ok)
            IN  /\ answer' = ans
                /\ shown' = full_response_content(ans)
                /\ messages' = Append(messages, [role |-> "assistant",
                                                 content |-> full_response_content(ans)])
       ELSE LET ans == cli_generate_rag_answer(client_gemini, relevant_chunks, ok)
            IN  /\ answer' = ans
                /\ shown' = [icon |-> "none", label |-> "none", text |-> ans.text]
                /\ UNCHANGED messages
    /\ pc' = "ready"
    /\ UNCHANGED <<program, supabase, client_gemini, model_embedding, embedded, rpc,
                   response_data, relevant_chunks, ivars>>

ServiceResponses == match_documents(MATCH_THRESHOLD, K_CHUNKS)

NextQuery ==
    \/ Startup
    \/ ChatInput
    \/ \E user_query \in {"sair", "", "O que e resistencia a insulina?"} : Input(user_query)
    \/ \E ok \in BOOLEAN : Embed(ok)
    \/ \E data \in ServiceResponses : Rpc(TRUE, data)
    \/ Rpc(FALSE, <<>>)
    \/ \E ok \in BOOLEAN : Generate(ok)

SpecQuery == InitQuery /\ [][NextQuery]_vars

---------------------------------------------------------------------------
(* File names                                                              *)

Upper == <<"A","B","C","D","E","F","G","H","I","J","K","L","M",
           "N","O","P","Q","R","S","T","U","V","W","X","Y","Z","Â">>
LowerOf == <<"a","b","c","d","e","f","g","h","i","j","k","l","m",
             "n","o","p","q","r","s","t","u","v","w","x","y","z","â">>

(* str.lower(), character by character *)
lower_char(c) ==
    IF \E k \in DOMAIN Upper : Upper[k] = c
    THEN LowerOf[CHOOSE k \in DOMAIN Upper : Upper[k] = c]
    ELSE c

lower(str) == [k \in DOMAIN str |-> lower_char(str[k])]

(* Python's `keyword in str` *)
contains(str, keyword) ==
    \E p \in 1..(Len(str) - Len(keyword) + 1) :
        SubSeq(str, p, p + Len(keyword) - 1) = keyword

kw_diabetes == <<"d","i","a","b","e","t","e","s">>
kw_cancer == <<"c","a","n","c","e","r">>
kw_estomago == <<"e","s","t","o","m","a","g","o">>
DotPdf == <<".","p","d","f">>

Fragments ==
    { kw_diabetes,
      <<"D","i","a","b","e","t","e","s">>,
      <<"D","I","A","B","E","T","E","S">>,
      <<"d","i","a","b","e","t","e">>,
      kw_cancer,
      <<"C","a","n","c","e","r">>,
      <<"c","â","n","c","e","r">>,
      kw_estomago,
      <<"E","S","T","O","M","A","G","O">>,
      <<"d","i","e","t","a">>,
      <<"_">> }

RECURSIVE Stems(_)
Stems(n) ==
    IF n = 0 THEN { <<>> }
    ELSE Stems(n - 1) \cup { a \o b : a \in Stems(n - 1), b \in Fragments }

FileNames == { stem \o DotPdf : stem \in Stems(MaxParts) \ { <<>> } }

(* The file names of the ingestion runs' corpora *)
CorpusFileNames ==
    { kw_diabetes \o DotPdf,
      <<"C","a","n","c","e","r">> \o DotPdf,
      <<"d","i","e","t","a">> \o DotPdf }

---------------------------------------------------------------------------
(* Index time: extract_text_from_pdf, chunk_text, generate_embeddings,     *)
(* insert_data_to_supabase_api, main                                       *)

(* A text is the sequence of segments split_text cuts it into; the empty   *)
(* string is the text of no segments.                                      *)
EmptyText == <<>>
Text(n) == [k \in 1..n |-> k]

(* A PDF file of docs/: its name, whether PdfReader fails on it, and the   *)
(* text its pages hold.                                                    *)
Document(name, corrupt, n) == [filename |-> name, corrupt |-> corrupt, text |-> Text(n)]

extract_text_from_pdf(doc) == IF doc.corrupt THEN EmptyText ELSE doc.text

split_text(text) == text

doenca_case_sensitive(filename) ==
    IF contains(filename, kw_diabetes) THEN "Diabetes"
    ELSE IF contains(filename, kw_cancer) \/ contains(filename, kw_estomago)
         THEN "Câncer de Estômago"
    ELSE "Geral/Não Especificado"

doenca(filename) ==
    IF contains(lower(filename), kw_diabetes) THEN "Diabetes"
    ELSE IF contains(lower(filename), kw_cancer) \/ contains(lower(filename), kw_estomago)
         THEN "Câncer de Estômago"
    ELSE "Geral/Não Especificado"

chunk_text(text, filename) ==
    LET chunks == split_text(text)
    IN  [k \in 1..Len(chunks) |->
            [source |-> filename,
             chunk_index |-> k - 1,
             content |-> chunks[k],
             metadata |-> [doenca |-> doenca(filename), tema |-> "nutrição"]]]

has_text_unchecked(text) == TRUE

(* The rows with the vector model.encode computed for each *)
generate_embeddings(chunks_data) ==
    [k \in DOMAIN chunks_data |->
        [source |-> chunks_data[k].source,
         chunk_index |-> chunks_data[k].chunk_index,
         content |-> chunks_data[k].content,
         metadata |-> chunks_data[k].metadata,
         embedding |-> <<chunks_data[k].source, chunks_data[k].content>>]]

(* main(), line 168: `if text:` *)
has_text(text) == text # EmptyText

(* requests.post of one batch: what the documents table holds afterwards.  *)
(* A request that fails with an HTTP error inserted nothing; one that      *)
(* fails on the network may or may not have been applied.                  *)
PostOutcomes ==
    { [status |-> "ok", applied |-> TRUE],
      [status |-> "http_error", applied |-> FALSE],
      [status |-> "network_error", applied |-> FALSE],
      [status |-> "network_error", applied |-> TRUE],
      [status |-> "exception", applied |-> FALSE] }

Min(a, b) == IF a <= b THEN a ELSE b

loop_skips_failed_batch(posted_ok, next_offset, total_records) ==
    next_offset < total_records

(* lines 107-128: the loop goes on to the next batch only when the post    *)
(* raised nothing and rows are left; every except clause breaks.           *)
loop_continues(posted_ok, next_offset, total_records) ==
    posted_ok /\ next_offset < total_records

NoReport == [inserted |-> 0, total |-> 0, complete |-> FALSE]

TextSizes == {0, BATCH_SIZE - 1, BATCH_SIZE + 1}

DocumentKinds(sizes) ==
    { Document(name, FALSE, n) : name \in CorpusFileNames, n \in sizes }
    \cup { Document(name, TRUE, 1) : name \in CorpusFileNames }

Corpora(sizes) ==
    { c \in UNION { [1..n -> DocumentKinds(sizes)] : n \in 0..MaxDocs } :
        \A a \in DOMAIN c, b \in DOMAIN c : a # b => c[a].filename # c[b].filename }

InitIndexOver(corpora) ==
    /\ program = "index"
    /\ pc = "start"
    /\ calls = <<>>
    /\ supabase = TRUE /\ client_gemini = TRUE /\ model_embedding = TRUE
    /\ messages = <<>>
    /\ IdleQuery
    /\ docs \in corpora
    /\ run = 0 /\ di = 0 /\ total_chunks_data = <<>> /\ i = 0
    /\ success_count = 0 /\ posted = <<>> /\ report = NoReport
    /\ store = <<>>

(* Corpora whose documents fill one batch, more than one, or none *)
InitIndex == InitIndexOver(Corpora(TextSizes))

(* Corpora of short documents, for repeated runs *)
ShortTextSizes == {0, 1, 2}

InitReindex == InitIndexOver(Corpora(ShortTextSizes))

(* main() lines 138-160: the listing of docs/ *)
BeginRun ==
    /\ run' = run + 1
    /\ calls' = <<>>
    /\ di' = 1
    /\ total_chunks_data' = <<>>
    /\ i' = 0 /\ success_count' = 0 /\ posted' = <<>> /\ report' = NoReport
    /\ pc' = IF docs = <<>> THEN "done" ELSE "docs"
    /\ UNCHANGED <<program, qvars, docs, store>>

StartRun ==
    /\ program = "index" /\ pc = "start"
    /\ BeginRun

(* The operator runs index_docs.py again on the same docs/.                *)
Rerun ==
    /\ program = "index" /\ pc \in {"done", "crashed"}
    /\ run < MaxRuns
    /\ BeginRun

(* main() lines 162-179: one iteration of the loop over pdf_files, and,    *)
(* after the last one, the test of total_chunks_data.                      *)
ProcessDocument(embed_ok) ==
    /\ program = "index" /\ pc = "docs"
    /\ LET doc == docs[di]
           text == extract_text_from_pdf(doc)
       IN  IF has_text(text)
           THEN /\ calls' = Append(calls, [op |-> "embed", ok |-> embed_ok])
                /\ IF embed_ok
                   THEN LET chunks == chunk_text(text, doc.filename)
                            chunks_with_embeddings == generate_embeddings(chunks)
                            collected == total_chunks_data \o chunks_with_embeddings
                        IN  /\ total_chunks_data' = collected
                            /\ di' = di + 1
                            /\ pc' = IF di < Len(docs) THEN "docs"
                                     ELSE IF collected # <<>> THEN "insert" ELSE "done"
                   ELSE /\ pc' = "crashed"
                        /\ UNCHANGED <<total_chunks_data, di>>
           ELSE /\ embed_ok
                /\ di' = di + 1
                /\ pc' = IF di < Len(docs) THEN "docs"
                         ELSE IF total_chunks_data # <<>> THEN "insert" ELSE "done"
                /\ UNCHANGED <<calls, total_chunks_data>>
    /\ UNCHANGED <<program, qvars, docs, run, i, success_count, posted, report, store>>

(* insert_data_to_supabase_api lines 107-133: one iteration of the batch   *)
(* loop, and, when the loop ends, the final log line.                      *)
PostBatch(outcome) ==
    /\ program = "index" /\ pc = "insert"
    /\ LET total_records == Len(total_chunks_data)
           batch_data == SubSeq(total_chunks_data, i + 1, Min(i + BATCH_SIZE, total_records))
           posted_ok == outcome.status = "ok"
           count == IF posted_ok THEN success_count + Len(batch_data) ELSE success_count
       IN  /\ calls' = Append(calls, [op |-> "post", ok |-> posted_ok])
           /\ posted' = Append(posted, [offset |-> i, size |-> Len(batch_data),
                                        status |-> outcome.status])
           /\ store' = IF outcome.applied THEN store \o batch_data ELSE store
           /\ success_count' = count
           /\ IF loop_continues(posted_ok, i + BATCH_SIZE, total_records)
              THEN /\ i' = i + BATCH_SIZE
                   /\ UNCHANGED <<pc, report>>
              ELSE /\ pc' = "done"
                   /\ report' = [inserted |-> count, total |-> total_records,
                                 complete |-> count = total_records]
                   /\ UNCHANGED i
    /\ UNCHANGED <<program, qvars, docs, run, di, total_chunks_data>>

NextIngest ==
    \/ StartRun
    \/ \E embed_ok \in BOOLEAN : ProcessDocument(embed_ok)
    \/ \E outcome \in PostOutcomes : PostBatch(outcome)

SpecIngest == InitIndex /\ [][NextIngest]_vars

(* The query programs and the ingestion run together *)
InitPipeline == InitQuery \/ InitIndex

NextPipeline ==
    \/ NextQuery
    \/ NextIngest

SpecPipeline == InitPipeline /\ [][NextPipeline]_vars

NextReindex ==
    \/ NextIngest
    \/ Rerun

SpecReindex == InitReindex /\ [][NextReindex]_vars

---------------------------------------------------------------------------
(* chunk_text on its own, over file names built from the fragments         *)

InitChunk ==
    /\ program = "chunk"
    /\ pc = "start"
    /\ calls = <<>>
    /\ supabase = TRUE /\ client_gemini = TRUE /\ model_embedding = TRUE
    /\ messages = <<>>
    /\ IdleQuery
    /\ \E name \in FileNames, n \in 0..MaxChunks : docs = <<Document(name, FALSE, n)>>
    /\ run = 0 /\ di = 0 /\ total_chunks_data = <<>> /\ i = 0
    /\ success_count = 0 /\ posted = <<>> /\ report = NoReport
    /\ store = <<>>

ChunkText ==
    /\ program = "chunk" /\ pc = "start"
    /\ total_chunks_data' = chunk_text(docs[1].text, docs[1].filename)
    /\ pc' = "done"
    /\ UNCHANGED <<program, calls, qvars, docs, run, di, i, success_count, posted, report,
                   store>>

NextChunk == ChunkText

SpecChunk == InitChunk /\ [][NextChunk]_vars

---------------------------------------------------------------------------
(* All programs *)

Init == InitQuery \/ InitIndex \/ InitReindex \/ InitChunk

Next == NextQuery \/ NextReindex \/ NextChunk

Spec == Init /\ [][Next]_vars

---------------------------------------------------------------------------
(* Properties *)

Answered == program \in {"app", "cli"} /\ pc = "ready" /\ llm # "none"
RetrievalReturned == program \in {"app", "cli"} /\ rpc # "none"

\* C1: for every call of generate_rag_answer the returned mode is RAG iff the
\* matches passed in are non-empty, FALLBACK iff they are empty, and ERROR
\* only when the generation call fails.
C1_ModeFollowsMatches ==
    Answered =>
        /\ answer.mode \in {"RAG", "FALLBACK", "ERROR"}
        /\ answer.mode = "ERROR" => llm = "fail"
        /\ answer.mode = "RAG" => relevant_chunks # <<>>
        /\ answer.mode = "FALLBACK" => relevant_chunks = <<>>
        /\ llm = "ok" => (answer.mode = "RAG" <=> relevant_chunks # <<>>)
        /\ llm = "ok" => (answer.mode = "FALLBACK" <=> relevant_chunks = <<>>)

\* The same statement of app.py alone.
AppModeFollowsMatches == program = "app" => C1_ModeFollowsMatches

\* C2: get_relevant_chunks returns at most K_CHUNKS matches, each with a
\* similarity above the post-filter threshold 0.75, in descending order of
\* similarity.
C2_RetrieverBounds ==
    RetrievalReturned =>
        /\ Len(relevant_chunks) <= K_CHUNKS
        /\ \A k \in DOMAIN relevant_chunks : relevant_chunks[k].similarity > POST_FILTER
        /\ Descending(relevant_chunks)

\* The same statement of app.py alone.
AppRetrieverBounds == program = "app" => C2_RetrieverBounds

RetrievalFailedOrEmpty == rpc = "error" \/ (rpc = "ok" /\ response_data = <<>>)

\* The part of C3 that is about get_relevant_chunks itself: an empty
\* sequence is returned and no exception leaves the function.
RetrievalFailureGivesNoMatches ==
    (program \in {"app", "cli"} /\ RetrievalFailedOrEmpty) =>
        relevant_chunks = <<>> /\ pc # "crashed"

\* C3: when the similarity-search call fails or returns no rows,
\* get_relevant_chunks returns an empty sequence, no exception reaches its
\* caller, and the query goes on to the Answerer's FALLBACK path.
C3_RetrievalFailureFallsBack ==
    (program \in {"app", "cli"} /\ RetrievalFailedOrEmpty) =>
        /\ relevant_chunks = <<>>
        /\ pc # "crashed"
        /\ pc = "generate" \/ (pc = "ready" /\ prompt.instruction = "general")

\* C4: the label the chat UI shows corresponds to the mode the Answerer
\* returned: RAG, FALLBACK and ERROR each get a label of their own.
C4_LabelMatchesMode ==
    (program = "app" /\ Answered) =>
        /\ answer.mode = "RAG" => shown.label = "RAG (Documentos)"
        /\ answer.mode = "FALLBACK" => shown.label = "FALLBACK (Conhecimento Geral)"
        /\ answer.mode = "ERROR" =>
              shown.label \notin {"RAG (Documentos)", "FALLBACK (Conhecimento Geral)"}

QueryEnded == program \in {"app", "cli"} /\ pc = "ready" /\ calls # <<>>

\* C5: at both entry points a query whose retrieval yields no match still
\* reaches the Answerer, and when the generation call succeeds the user gets
\* the generated answer, in mode FALLBACK.
C5_EmptyRetrievalStillAnswered ==
    (QueryEnded /\ relevant_chunks = <<>>) =>
        /\ llm # "none"
        /\ llm = "ok" => (prompt.instruction = "general" /\ shown.text = "response.text")
        /\ (llm = "ok" /\ program = "app") => answer.mode = "FALLBACK"

\* The same statement of the chat UI alone.
AppEmptyRetrievalStillAnswered == program = "app" => C5_EmptyRetrievalStillAnswered

RECURSIVE InsertedBy(_)
InsertedBy(batches) ==
    IF batches = <<>> THEN 0
    ELSE (IF Head(batches).status = "ok" THEN Head(batches).size ELSE 0)
         + InsertedBy(Tail(batches))

NoBatchFailed == \A k \in DOMAIN posted : posted[k].status = "ok"

\* C6: the batches hold at most BATCH_SIZE rows and are sent in list order;
\* after a batch fails no later batch is sent; the reported count is the
\* number of rows of the batches that succeeded, and it equals the total
\* iff no batch failed.
C6_BatchesHaltOnFailure ==
    program = "index" =>
        /\ \A k \in DOMAIN posted :
              /\ posted[k].offset = (k - 1) * BATCH_SIZE
              /\ posted[k].size = Min(BATCH_SIZE, Len(total_chunks_data) - posted[k].offset)
              /\ posted[k].size >= 1 /\ posted[k].size <= BATCH_SIZE
        /\ \A k \in DOMAIN posted : k < Len(posted) => posted[k].status = "ok"
        /\ success_count = InsertedBy(posted)
        /\ (pc = "done" /\ posted # <<>>) =>
              /\ report.inserted = InsertedBy(posted)
              /\ report.total = Len(total_chunks_data)
              /\ (report.inserted = report.total) <=> NoBatchFailed
              /\ report.complete <=> NoBatchFailed

C6_Witness ==
    /\ program = "index" /\ pc = "done"
    /\ Len(total_chunks_data) > 2 * BATCH_SIZE
    /\ Len(posted) = 2
    /\ posted[1].status = "ok" /\ posted[2].status = "http_error"
    /\ report.inserted = BATCH_SIZE /\ ~report.complete

\* C7: re-running the ingestion on an unchanged corpus replaces the stored
\* set: after a second run that inserted every row the table holds the
\* corpus' rows once, as after a first run.
C7_ReindexReplaces ==
    (program = "index" /\ run = 2 /\ pc = "done" /\ report.complete) =>
        store = total_chunks_data

\* A first run that inserted every row leaves the corpus' rows in the table.
FirstRunStoresCorpus ==
    (program = "index" /\ run = 1 /\ pc = "done" /\ report.complete) =>
        store = total_chunks_data

C8_QueryTime ==
    (program \in {"app", "cli"} /\ embedded = "fail") =>
        /\ rpc = "none"
        /\ answer.mode \notin {"RAG", "FALLBACK"}

C8_IndexTime ==
    (program = "index" /\ calls # <<>> /\ calls[Len(calls)] = [op |-> "embed", ok |-> FALSE]) =>
        pc = "crashed" /\ posted = <<>>

\* C8: an embedding failure is fatal for the current operation: a query whose
\* embedding fails does not go on to retrieval and is not answered as RAG or
\* FALLBACK; an ingestion run whose embedding fails does not go on.
C8_EmbeddingFailureFatal == C8_QueryTime /\ C8_IndexTime

\* The same statement of rag_query.py alone.
CliEmbeddingFailureFatal == program = "cli" => C8_QueryTime

Contribution(doc) == IF doc.corrupt THEN 0 ELSE Len(doc.text)

RECURSIVE Offset(_)
Offset(k) == IF k <= 1 THEN 0 ELSE Offset(k - 1) + Contribution(docs[k - 1])

EmbedCalls == Cardinality({ c \in DOMAIN calls : calls[c].op = "embed" })

\* C9: a document whose extraction fails contributes no rows and no embedding
\* call, and does not stop the run: the documents after it are extracted,
\* chunked, embedded and passed to the insert.
C9_FailedDocumentIsSkipped ==
    (program = "index" /\ run >= 1) =>
        /\ Len(total_chunks_data) = Offset(di)
        /\ \A k \in 1..(di - 1) : \A j \in 1..Contribution(docs[k]) :
              /\ total_chunks_data[Offset(k) + j].source = docs[k].filename
              /\ total_chunks_data[Offset(k) + j].chunk_index = j - 1
              /\ "embedding" \in DOMAIN total_chunks_data[Offset(k) + j]
        /\ EmbedCalls = Cardinality({ k \in 1..(di - 1) : Contribution(docs[k]) > 0 })
                        + (IF pc = "crashed" THEN 1 ELSE 0)
        /\ pc = "crashed" =>
              /\ ~docs[di].corrupt
              /\ calls[Len(calls)] = [op |-> "embed", ok |-> FALSE]
        /\ pc \in {"insert", "done"} => di = Len(docs) + 1

C9_Witness ==
    /\ program = "index" /\ pc = "insert"
    /\ Len(docs) = 2
    /\ docs[1].corrupt /\ ~docs[2].corrupt
    /\ Len(total_chunks_data) = Len(docs[2].text)
    /\ total_chunks_data[1].source = docs[2].filename
    /\ EmbedCalls = 1

SameLetter(a, b) ==
    a = b \/ \E k \in DOMAIN Upper : {a, b} = {Upper[k], LowerOf[k]}

Mentions(filename, keyword) ==
    \E p \in 1..Len(filename) :
        /\ p + Len(keyword) - 1 <= Len(filename)
        /\ \A j \in 1..Len(keyword) : SameLetter(filename[p + j - 1], keyword[j])

RuleTable(filename, cancer, general) ==
    IF Mentions(filename, kw_diabetes) THEN "Diabetes"
    ELSE IF Mentions(filename, kw_cancer) \/ Mentions(filename, kw_estomago) THEN cancer
    ELSE general

Chunked == program = "chunk" /\ pc = "done"

ChunksCarry(cancer, general) ==
    /\ Len(total_chunks_data) = Len(docs[1].text)
    /\ \A k \in DOMAIN total_chunks_data :
          /\ total_chunks_data[k].source = docs[1].filename
          /\ total_chunks_data[k].chunk_index = k - 1
          /\ total_chunks_data[k].content = docs[1].text[k]
          /\ total_chunks_data[k].metadata.doenca = RuleTable(docs[1].filename, cancer, general)

\* C10 as written: every chunk of a source gets the category of the ordered
\* rule table "diabetes" -> "Diabetes", "cancer" or "estomago" ->
\* "Cancer-Stomach", otherwise "General/Unspecified", matched without regard
\* to case, and chunk_index runs 0, 1, ..., n-1 in source order.
C10_CategoryAsWritten ==
    Chunked => ChunksCarry("Cancer-Stomach", "General/Unspecified")

\* C10 amended: the same, with the labels the code assigns (under the
\* metadata key "doenca"): "Diabetes", "Câncer de Estômago" and
\* "Geral/Não Especificado".
C10_CategoryAndIndex ==
    Chunked => ChunksCarry("Câncer de Estômago", "Geral/Não Especificado")

C10_Witness ==
    /\ Chunked
    /\ Len(total_chunks_data) = MaxChunks
    /\ docs[1].filename # lower(docs[1].filename)
    /\ Mentions(docs[1].filename, kw_cancer)
    /\ ~Mentions(docs[1].filename, kw_diabetes)
    /\ total_chunks_data[MaxChunks].metadata.doenca = "Câncer de Estômago"
    /\ total_chunks_data[MaxChunks].chunk_index = MaxChunks - 1

Rank(op) == CASE op = "embed" -> 1 [] op = "rpc" -> 2 [] op = "llm" -> 3 [] OTHER -> 0

PostCalls == Cardinality({ c \in DOMAIN calls : calls[c].op = "post" })

\* C11: nothing is retried.  Within one query the embedding call, the
\* similarity-search call and the generation call are each issued at most
\* once, in the order embed, retrieve, generate; within one ingestion run
\* each batch is posted at most once; whatever the outcomes of the calls.
C11_NoRetries ==
    /\ program \in {"app", "cli"} =>
          /\ \A c \in DOMAIN calls : calls[c].op \in {"embed", "rpc", "llm"}
          /\ \A a \in DOMAIN calls, b \in DOMAIN calls :
                a < b => Rank(calls[a].op) < Rank(calls[b].op)
          /\ Len(calls) <= 3
    /\ program = "index" =>
          /\ \A a \in DOMAIN posted, b \in DOMAIN posted :
                a < b => posted[a].offset < posted[b].offset
          /\ PostCalls = Len(posted)
          /\ Len(posted) * BATCH_SIZE < Len(total_chunks_data) + BATCH_SIZE

C11_Witness ==
    /\ program = "app" /\ pc = "ready"
    /\ calls = <<[op |-> "embed", ok |-> TRUE], [op |-> "rpc", ok |-> FALSE],
                 [op |-> "llm", ok |-> FALSE]>>
    /\ answer.mode = "ERROR"

\* An ingestion run whose second batch failed on the network: it was posted
\* once and nothing followed it.
IngestNoRetryWitness ==
    /\ program = "index" /\ pc = "done"
    /\ Len(total_chunks_data) > 2 * BATCH_SIZE
    /\ Len(posted) = 2 /\ posted[2].status = "network_error"
    /\ PostCalls = 2

====
